---- MODULE Spec2Model ----
\* UserDataInitializationService (workbench user data bootstrap) as a state
\* machine: the memoized store-client promise, the `initialized` array and the
\* per-resource tasks of every entry-point call, interleaved as the JavaScript
\* event loop interleaves them (one synchronous run per step). A second,
\* independent object, BulkCellEdits, is modelled by the variables and actions
\* of the last section and runs under its own specification, SpecBulk.
EXTENDS Integers, Sequences, FiniteSets, TLC

\* ---------------------------------------------------------------- bounds
\* Entry-point calls and environment changes in a run of Spec.
MaxCalls == 2
MaxEnvChanges == 1
\* Entry-point calls in a run of the all-gates-pass scenario SpecWeb.
MaxWebCalls == 3
\* Edits handed to one BulkCellEdits, and the highest versionId a notebook
\* has, or an edit names, before apply() touches it.
MaxEdits == 3
MaxVersion == 2

\* ---------------------------------------------------------------- data
\* SyncResource kinds handled by createSyncResourceInitializer.
SyncResource == {"settings", "keybindings", "snippets", "globalState", "extensions"}

\* The six synchronous gating checks of createUserDataSyncStoreClient, in the
\* order of its early returns.
GateOrder == <<"isWeb", "enableSyncByDefault", "globalNew", "workspaceNew",
               "syncStore", "credentialsProvider">>

Gates == {GateOrder[i] : i \in 1..Len(GateOrder)}

\* isWeb is a build-time constant of the platform; the others are read from
\* services whose answer can differ from one moment to the next.
MutableGates == Gates \ {"isWeb"}

\* Outcomes of getCurrentAuthenticationSessionInfo.
AuthResults == {"session", "none", "throw"}

RequiredResources == <<"settings", "globalState">>
OtherResources == <<"keybindings", "snippets">>
ExtensionsResources == <<"extensions">>

Range(s) == {s[i] : i \in 1..Len(s)}

VARIABLES
    env,            \* set of gates that currently pass
    envChanges,     \* number of environment changes so far (bounded)
    promises,       \* every promise the connection builder created
    clientPromise,  \* _userDataSyncStoreClientPromise: 0 = undefined, else index
    clients,        \* number of UserDataSyncStoreClient objects constructed
    authCalls,      \* number of getCurrentAuthenticationSessionInfo calls
    initialized,    \* the `initialized` array
    calls,          \* every entry-point call made so far
    reads,          \* per kind: number of userDataSyncStoreClient.read calls
    constructs,     \* per kind: number of initializers constructed
    applies,        \* per kind: number of initializer.initialize calls
    edits,          \* BulkCellEdits._edits
    notebooks,      \* per resource: the notebook's current versionId
    editsByNotebook, \* the groups computed by apply()
    groupIndex,     \* position of apply() in its loop over the groups
    bulkPc,         \* "new", "resolving" (at the await), "resolved", "rejected"
    bulkError,      \* what apply() rejected with: "none", "resolve", "changed"
    resolves,       \* every reference resolve() returned, in order
    applyEdits,     \* every notebook.applyEdit call, in order
    disposes,       \* number of ref.dispose calls
    progress        \* number of _progress.report calls

serviceVars == <<env, envChanges, promises, clientPromise, clients, authCalls,
                 initialized, calls, reads, constructs, applies>>

bulkVars == <<edits, notebooks, editsByNotebook, groupIndex, bulkPc, bulkError,
              resolves, applyEdits, disposes, progress>>

vars == <<serviceVars, bulkVars>>

\* A task of Promise.all(syncResources.map(async ...)) before it has run.
\* `events` lists, in order, what the task has done so far: "mark" (push),
\* "construct" (initializer built), "read" (read called), "apply"
\* (initializer.initialize called). `userData` is what the task's read
\* resolved with and `argument` what it handed to initializer.initialize;
\* both are the empty tuple until then.
NewTask == [st |-> "pending", error |-> "none", constructed |-> FALSE,
            read |-> FALSE, applied |-> FALSE, events |-> <<>>,
            userData |-> <<>>, argument |-> <<>>]

\* The environments a session starts in: each check of the chain passes or
\* fails, independently of the others.
InitialEnvs == SUBSET Gates

InitService ==
    /\ env \in InitialEnvs
    /\ envChanges = 0
    /\ promises = <<>>
    /\ clientPromise = 0
    /\ clients = 0
    /\ authCalls = 0
    /\ initialized = <<>>
    /\ calls = <<>>
    /\ reads = [k \in SyncResource |-> 0]
    /\ constructs = [k \in SyncResource |-> 0]
    /\ applies = [k \in SyncResource |-> 0]

\* The resources of notebooks, in the order of compare() on their strings.
ResourceOrder == <<"nb1", "nb2">>

Resources == Range(ResourceOrder)

\* The service alone: a BulkCellEdits without edits, which is never applied.
Init ==
    /\ InitService
    /\ edits = <<>>
    /\ notebooks = [r \in Resources |-> 1]
    /\ editsByNotebook = <<>>
    /\ groupIndex = 0
    /\ bulkPc = "new"
    /\ bulkError = "none"
    /\ resolves = <<>>
    /\ applyEdits = <<>>
    /\ disposes = 0
    /\ progress = 0

\* ------------------------------------------- createUserDataSyncStoreClient
\* Faulty variants of the memoization guard: one that builds again after an
\* absent result, one that builds on every call.
NeedsNewPromiseRetryAbsent(cp, ps) ==
    \/ cp = 0
    \/ (ps[cp].state = "resolved" /\ ps[cp].value = 0)

NeedsNewPromiseAlways(cp, ps) == TRUE

\* if (!this._userDataSyncStoreClientPromise)
NeedsNewPromise(cp, ps) == cp = 0

\* Faulty variant: the session is looked up as soon as the session is a web
\* session, whatever the other checks say.
GatesPassOnlyWeb(e) == "isWeb" \in e

\* The synchronous chain of early returns: the first check that fails, in
\* order, or "none" when every check passes.
FirstFailing(e) ==
    IF Gates \subseteq e THEN "none"
    ELSE GateOrder[CHOOSE i \in 1..Len(GateOrder) :
            /\ GateOrder[i] \notin e
            /\ \A j \in 1..(i - 1) : GateOrder[j] \in e]

GatesPass(e) == FirstFailing(e) = "none"

\* Faulty variant: the error of the session lookup escapes the builder.
OnAuthErrorRethrow ==
    [state |-> "rejected", value |-> 0, log |-> "none", error |-> "auth",
     session |-> "throw"]

\* catch (error) { this.logService.error(error); } around the session lookup:
\* the promise goes on with authenticationSession undefined.
OnAuthError ==
    [state |-> "resolved", value |-> 0, log |-> "authError", error |-> "none",
     session |-> "throw"]

\* The promises after the builder ran synchronously up to its first await:
\* settled absent when a gate fails (log: the check that made it skip),
\* pending on the session lookup otherwise. `session` is what the lookup
\* answered: "unasked" when it was never called, "pending" until it returns;
\* `gates` is the environment the checks saw.
StartAttempt(ps, e) ==
    IF GatesPass(e)
    THEN Append(ps, [state |-> "pending", value |-> 0, log |-> "none",
                     error |-> "none", session |-> "pending", gates |-> e])
    ELSE Append(ps, [state |-> "resolved", value |-> 0, log |-> FirstFailing(e),
                     error |-> "none", session |-> "unasked", gates |-> e])

\* ------------------------------------------------------------ entry points
\* initialize(syncResources, instantiationService) up to its first await.
Initialize(entry, resources, inst) ==
    /\ LET fresh == NeedsNewPromise(clientPromise, promises)
           ps == IF fresh THEN StartAttempt(promises, env) ELSE promises
           cp == IF fresh THEN Len(ps) ELSE clientPromise
       IN /\ promises' = ps
          /\ clientPromise' = cp
          /\ authCalls' = IF fresh /\ GatesPass(env) THEN authCalls + 1 ELSE authCalls
          /\ calls' = Append(calls,
                [entry |-> entry, inst |-> inst, resources |-> resources,
                 promise |-> cp, pc |-> "awaitClient", outcome |-> "pending",
                 error |-> "none",
                 tasks |-> [i \in 1..Len(resources) |-> NewTask]])
    /\ UNCHANGED bulkVars
    /\ UNCHANGED <<env, envChanges, clients, initialized, reads, constructs, applies>>

initializeRequiredResources == Initialize("required", RequiredResources, FALSE)

initializeOtherResources == Initialize("other", OtherResources, FALSE)

initializeExtensions == \E inst \in BOOLEAN : Initialize("extensions", ExtensionsResources, inst)

\* new UserDataSyncStoreClient(URI.parse(url), ...) and setAuthToken, which
\* follow the session check outside of any try block: the promise resolves
\* with client number n, or rejects with what the construction threw.
BuildClient(n, built) ==
    IF built
    THEN [state |-> "resolved", value |-> n, log |-> "none", error |-> "none",
          session |-> "session"]
    ELSE [state |-> "rejected", value |-> 0, log |-> "none", error |-> "construct",
          session |-> "session"]

\* A pending promise settles as `how` says.
Settle(promise, how) ==
    [promise EXCEPT !.state = how.state, !.value = how.value, !.log = how.log,
                    !.error = how.error, !.session = how.session]

\* The awaited session lookup returns (or throws); the builder runs to its end.
AuthReturn ==
    \E p \in 1..Len(promises), r \in AuthResults, built \in BOOLEAN :
        /\ promises[p].state = "pending"
        /\ promises' = [promises EXCEPT ![p] = Settle(@,
              CASE r = "session" -> BuildClient(clients + 1, built)
                [] r = "none" ->
                     [state |-> "resolved", value |-> 0, log |-> "noSession",
                      error |-> "none", session |-> "none"]
                [] OTHER -> OnAuthError)]
        /\ clients' = IF r = "session" /\ built THEN clients + 1 ELSE clients
        /\ UNCHANGED bulkVars
        /\ UNCHANGED <<env, envChanges, clientPromise, authCalls, initialized,
                       calls, reads, constructs, applies>>

\* ------------------------------------------------------------- initialize
\* Faulty variant: the absent check is missing.
ClientAbsentNever(value) == FALSE

\* if (!userDataSyncStoreClient) return;   (value 0 is undefined)
ClientAbsent(value) == value = 0

\* Faulty variants: the includes check is missing; the check asks whether
\* anything at all was initialized.
AlreadyInitializedNever(init, k) == FALSE

AlreadyInitializedAny(init, k) == init # <<>>

\* if (this.initialized.includes(syncResource)) return;
AlreadyInitialized(init, k) == k \in Range(init)

\* Faulty variant: the push is missing.
MarkInitializedSkip(init, k) == init

\* this.initialized.push(syncResource);
MarkInitialized(init, k) == Append(init, k)

\* Faulty variant: the missing instantiation service goes unnoticed.
CreateThrowsNever(k, inst) == FALSE

\* createSyncResourceInitializer throws for Extensions without the
\* instantiation service; the four other initializers are plain constructions.
CreateThrows(k, inst) == k = "extensions" /\ ~inst

\* Faulty variants: the error escapes the task; one try around all the tasks,
\* so that a failure ends the siblings still under way.
CatchTaskRethrow(tasks, i, err) ==
    [tasks EXCEPT ![i].st = "rejected", ![i].error = err]

CatchTaskAbortSiblings(tasks, i, err) ==
    [j \in DOMAIN tasks |->
        IF j = i THEN [tasks[j] EXCEPT !.st = "failed", !.error = err]
        ELSE IF tasks[j].st \in {"pending", "reading", "applying"}
             THEN [tasks[j] EXCEPT !.st = "failed", !.error = "sibling"]
             ELSE tasks[j]]

\* catch (error) { log } of one task: the task ends, its siblings are untouched.
CatchTask(tasks, i, err) ==
    [tasks EXCEPT ![i].st = "failed", ![i].error = err]

\* Faulty variant: a failed kind is taken out of the array, to be retried.
CatchInitializedRemove(init, k) == SelectSeq(init, LAMBDA x : x # k)

\* The catch block leaves the `initialized` array as it is.
CatchInitialized(init, k) == init

\* Faulty variant: the payload is read before the initializer is built.
StartTaskReadFirst(s, i, k, inst, value) ==
    IF s.tasks[i].st # "pending" THEN s
    ELSE IF AlreadyInitialized(s.init, k)
    THEN [s EXCEPT !.tasks[i].st = "skipped"]
    ELSE LET pushed == MarkInitialized(s.init, k)
         IN IF value = 0
            THEN [s EXCEPT !.init = CatchInitialized(pushed, k),
                           !.tasks = CatchTask([s.tasks EXCEPT
                                                   ![i].events = <<"mark">>],
                                               i, "read")]
            ELSE IF CreateThrows(k, inst)
            THEN [s EXCEPT !.init = CatchInitialized(pushed, k),
                           !.reads[k] = @ + 1,
                           !.tasks = CatchTask([s.tasks EXCEPT
                                                   ![i].read = TRUE,
                                                   ![i].events = <<"mark", "read">>],
                                               i, "missingInstantiation")]
            ELSE [s EXCEPT !.init = pushed,
                           !.constructs[k] = @ + 1,
                           !.reads[k] = @ + 1,
                           !.tasks[i] = [@ EXCEPT !.st = "reading",
                                                  !.constructed = TRUE,
                                                  !.read = TRUE,
                                                  !.events = <<"mark", "read",
                                                               "construct">>]]

\* Faulty variant: the kind is pushed only once its initializer is built, so
\* a construction that throws leaves it unmarked.
StartTaskMarkLate(s, i, k, inst, value) ==
    IF s.tasks[i].st # "pending" THEN s
    ELSE IF AlreadyInitialized(s.init, k)
    THEN [s EXCEPT !.tasks[i].st = "skipped"]
    ELSE LET pushed == MarkInitialized(s.init, k)
         IN IF CreateThrows(k, inst)
            THEN [s EXCEPT !.init = CatchInitialized(s.init, k),
                           !.tasks = CatchTask(s.tasks, i, "missingInstantiation")]
            ELSE IF value = 0
            THEN [s EXCEPT !.init = CatchInitialized(pushed, k),
                           !.constructs[k] = @ + 1,
                           !.tasks = CatchTask([s.tasks EXCEPT
                                                   ![i].constructed = TRUE,
                                                   ![i].events = <<"construct", "mark">>],
                                               i, "read")]
            ELSE [s EXCEPT !.init = pushed,
                           !.constructs[k] = @ + 1,
                           !.reads[k] = @ + 1,
                           !.tasks[i] = [@ EXCEPT !.st = "reading",
                                                  !.constructed = TRUE,
                                                  !.read = TRUE,
                                                  !.events = <<"construct", "mark",
                                                               "read">>]]

\* One async arrow of syncResources.map, run synchronously up to its first
\* await, on the state s = [init, tasks, reads, constructs]: includes check,
\* push, createSyncResourceInitializer, then the call of read.
StartTask(s, i, k, inst, value) ==
    IF s.tasks[i].st # "pending" THEN s
    ELSE IF AlreadyInitialized(s.init, k)
    THEN [s EXCEPT !.tasks[i].st = "skipped"]
    ELSE LET pushed == MarkInitialized(s.init, k)
         IN IF CreateThrows(k, inst)
            THEN [s EXCEPT !.init = CatchInitialized(pushed, k),
                           !.tasks = CatchTask([s.tasks EXCEPT
                                                   ![i].events = <<"mark">>],
                                               i, "missingInstantiation")]
            ELSE IF value = 0
            THEN \* read of an undefined client: a TypeError inside the try
                 [s EXCEPT !.init = CatchInitialized(pushed, k),
                           !.constructs[k] = @ + 1,
                           !.tasks = CatchTask([s.tasks EXCEPT
                                                   ![i].constructed = TRUE,
                                                   ![i].events = <<"mark", "construct">>],
                                               i, "read")]
            ELSE [s EXCEPT !.init = pushed,
                           !.constructs[k] = @ + 1,
                           !.reads[k] = @ + 1,
                           !.tasks[i] = [@ EXCEPT !.st = "reading",
                                                  !.constructed = TRUE,
                                                  !.read = TRUE,
                                                  !.events = <<"mark", "construct",
                                                               "read">>]]

\* Faulty variant: only the first arrow is started (a loop that awaits each
\* kind before it goes on to the next).
MapFromFirstOnly(s, i, resources, inst, value) ==
    IF i > 1 \/ i > Len(resources) THEN s
    ELSE StartTask(s, i, resources[i], inst, value)

\* syncResources.map(...): the arrows start one after the other, in array order.
RECURSIVE MapFrom(_, _, _, _, _)
MapFrom(s, i, resources, inst, value) ==
    IF i > Len(resources) THEN s
    ELSE MapFrom(StartTask(s, i, resources[i], inst, value), i + 1,
                 resources, inst, value)

\* The continuation of `await this.createUserDataSyncStoreClient()`. The
\* reactions of one promise run in the order in which they were registered.
Resume ==
    \E c \in 1..Len(calls) :
        /\ calls[c].pc = "awaitClient"
        /\ promises[calls[c].promise].state # "pending"
        /\ \A b \in 1..(c - 1) :
              calls[b].promise = calls[c].promise => calls[b].pc # "awaitClient"
        /\ IF promises[calls[c].promise].state = "rejected"
           THEN \* the await throws outside of the try: initialize rejects
                /\ calls' = [calls EXCEPT ![c].pc = "done", ![c].outcome = "rejected",
                                ![c].error = promises[calls[c].promise].error]
                /\ UNCHANGED <<initialized, reads, constructs>>
           ELSE IF ClientAbsent(promises[calls[c].promise].value)
           THEN /\ calls' = [calls EXCEPT ![c].pc = "done", ![c].outcome = "resolved"]
                /\ UNCHANGED <<initialized, reads, constructs>>
           ELSE LET s == MapFrom([init |-> initialized, tasks |-> calls[c].tasks,
                                  reads |-> reads, constructs |-> constructs],
                                 1, calls[c].resources, calls[c].inst,
                                 promises[calls[c].promise].value)
                IN /\ calls' = [calls EXCEPT ![c].pc = "awaitAll", ![c].tasks = s.tasks]
                   /\ initialized' = s.init
                   /\ reads' = s.reads
                   /\ constructs' = s.constructs
        /\ UNCHANGED bulkVars
        /\ UNCHANGED <<env, envChanges, promises, clientPromise, clients, authCalls, applies>>

\* The IUserData object that read(syncResource, null) of task i of call c
\* resolves with: one object per read, for the kind that was asked for.
ReadResult(c, i, k) == <<c, i, k>>

\* Faulty variant: the initializer is called without the payload.
ApplyArgumentNone(userData) == <<>>

\* initializer.initialize(userData): the argument is the constant bound by
\* `const userData = await userDataSyncStoreClient.read(...)`.
ApplyArgument(userData) == userData

\* userDataSyncStoreClient.read settles: on success the task calls
\* initializer.initialize(userData); on failure it lands in the catch block.
ReadSettles(c, i, ok) ==
    LET k == calls[c].resources[i]
    IN /\ calls[c].tasks[i].st = "reading"
       /\ IF ok
          THEN /\ calls' = [calls EXCEPT ![c].tasks[i].st = "applying",
                                         ![c].tasks[i].applied = TRUE,
                                         ![c].tasks[i].userData =
                                             ReadResult(c, i, k),
                                         ![c].tasks[i].argument =
                                             ApplyArgument(ReadResult(c, i, k)),
                                         ![c].tasks[i].events =
                                             Append(@, "apply")]
               /\ applies' = [applies EXCEPT ![k] = @ + 1]
               /\ UNCHANGED initialized
          ELSE /\ calls' = [calls EXCEPT ![c].tasks = CatchTask(@, i, "read")]
               /\ initialized' = CatchInitialized(initialized, k)
               /\ UNCHANGED applies
       /\ UNCHANGED bulkVars
       /\ UNCHANGED <<env, envChanges, promises, clientPromise, clients,
                      authCalls, reads, constructs>>

ReadReturn ==
    \E c \in 1..Len(calls), ok \in BOOLEAN :
        \E i \in 1..Len(calls[c].resources) : ReadSettles(c, i, ok)

\* initializer.initialize(userData) settles.
ApplySettles(c, i, ok) ==
    LET k == calls[c].resources[i]
    IN /\ calls[c].tasks[i].st = "applying"
       /\ IF ok
          THEN /\ calls' = [calls EXCEPT ![c].tasks[i].st = "done"]
               /\ UNCHANGED initialized
          ELSE /\ calls' = [calls EXCEPT ![c].tasks = CatchTask(@, i, "apply")]
               /\ initialized' = CatchInitialized(initialized, k)
       /\ UNCHANGED bulkVars
       /\ UNCHANGED <<env, envChanges, promises, clientPromise, clients,
                      authCalls, reads, constructs, applies>>

ApplyReturn ==
    \E c \in 1..Len(calls), ok \in BOOLEAN :
        \E i \in 1..Len(calls[c].resources) : ApplySettles(c, i, ok)

\* Faulty variant: a task counts as over as soon as its read has returned.
SettledOnceRead(task) ==
    task.st \in {"skipped", "applying", "done", "failed", "rejected"}

\* Faulty variant: a skipped task stays open, waiting for the kind's claimer.
SettledUnlessSkipped(task) == task.st \in {"done", "failed", "rejected"}

Settled(task) == task.st \in {"skipped", "done", "failed", "rejected"}

\* await Promise.all(...): resolves once every task resolved, rejects as soon
\* as one task rejects; the async function then returns to its caller.
Return ==
    \E c \in 1..Len(calls) :
        LET ts == calls[c].tasks
            rejected == \E i \in DOMAIN ts : ts[i].st = "rejected"
        IN /\ calls[c].pc = "awaitAll"
           /\ rejected \/ \A i \in DOMAIN ts : Settled(ts[i])
           /\ calls' = [calls EXCEPT ![c].pc = "done",
                           ![c].outcome = IF rejected THEN "rejected" ELSE "resolved",
                           ![c].error = IF rejected
                                        THEN ts[CHOOSE i \in DOMAIN ts :
                                                    ts[i].st = "rejected"].error
                                        ELSE "none"]
           /\ UNCHANGED bulkVars
           /\ UNCHANGED <<env, envChanges, promises, clientPromise, clients, authCalls,
                          initialized, reads, constructs, applies>>

AllReturned == \A c \in 1..Len(calls) : calls[c].pc = "done"

\* The services behind the gates answer differently from now on (storage is
\* no longer new, a credentials provider appears, the user logs in, ...).
\* The service reads them only inside an entry-point call, so the change is
\* placed between calls, where a later call can observe it; what the gates
\* answer before the first call is the choice of Init.
ChangeEnv ==
    \E g \in MutableGates :
        /\ envChanges < MaxEnvChanges
        /\ calls # <<>>
        /\ AllReturned
        /\ envChanges' = envChanges + 1
        /\ env' = IF g \in env THEN env \ {g} ELSE env \cup {g}
        /\ UNCHANGED bulkVars
        /\ UNCHANGED <<promises, clientPromise, clients, authCalls, initialized,
                       calls, reads, constructs, applies>>

\* The asynchronous steps of the calls in flight.
Progress ==
    \/ AuthReturn
    \/ Resume
    \/ ReadReturn
    \/ ApplyReturn
    \/ Return

Next ==
    \/ (Len(calls) < MaxCalls /\ initializeRequiredResources)
    \/ (Len(calls) < MaxCalls /\ initializeOtherResources)
    \/ (Len(calls) < MaxCalls /\ initializeExtensions)
    \/ Progress
    \/ (Len(calls) < MaxCalls /\ ChangeEnv)

Spec == Init /\ [][Next]_vars

\* The scenario of a fresh web session in which every gate passes, driven
\* through the two resource entry points only.
InitWeb == Init /\ env = Gates

NextWeb ==
    \/ (Len(calls) < MaxWebCalls /\ initializeRequiredResources)
    \/ (Len(calls) < MaxWebCalls /\ initializeOtherResources)
    \/ Progress

SpecWeb == InitWeb /\ [][NextWeb]_vars

\* ================================================================ claims
CallIds == 1..Len(calls)

TaskIds(c) == 1..Len(calls[c].resources)

\* A promise has settled with the absent result / a client.
Absent(p) == p.state = "resolved" /\ p.value = 0

HasClient(p) == p.state = "resolved" /\ p.value # 0

\* The call ran past `if (!userDataSyncStoreClient) return;` into the map.
Dispatched(c) == calls[c].pc # "awaitClient" /\ HasClient(promises[calls[c].promise])

NoInstantiationService(c) == calls[c].entry = "extensions" /\ ~calls[c].inst

\* C1: over the lifetime of the service, whatever calls are made and however
\* they interleave, read is invoked at most once for each SyncResource kind.
C1_ReadAtMostOncePerKind == \A k \in SyncResource : reads[k] <= 1

\* Two calls of the same entry point both went through the map; one read.
C1_Witness ==
    /\ Len(calls) = 2
    /\ calls[1].entry = "required" /\ calls[2].entry = "required"
    /\ Dispatched(1) /\ Dispatched(2)
    /\ reads["settings"] = 1 /\ reads["globalState"] = 1

\* C2: the connection-construction sequence starts at most once: one promise,
\* one session lookup, at most one client, and every call awaits that promise.
C2_OneConstructionAttempt ==
    /\ Len(promises) <= 1
    /\ authCalls <= 1
    /\ clients <= 1
    /\ clientPromise = (IF calls = <<>> THEN 0 ELSE 1)
    /\ \A c \in CallIds : calls[c].promise = 1

\* A second call is made while the first attempt is still pending.
C2_Witness ==
    /\ Len(calls) = 2
    /\ promises[1].state = "pending"
    /\ calls[1].pc = "awaitClient" /\ calls[2].pc = "awaitClient"

\* C3: in a call that went through the map, a failure of kind K leaves every
\* other requested kind J attempted: J is skipped only when it was already
\* initialized, otherwise its read was invoked, and J ends failed only by a
\* failure of its own read or apply, else applied.
C3_FailureIsolatedPerKind ==
    \A c \in CallIds : \A i, j \in TaskIds(c) :
        (/\ i # j
         /\ Dispatched(c)
         /\ calls[c].tasks[i].st = "failed")
        => LET t == calls[c].tasks[j]
           IN /\ t.st # "pending"
              /\ t.st # "skipped" =>
                    /\ t.read
                    /\ t.st \in {"applying", "done"} => t.applied
                    /\ t.st = "failed" => t.error \in {"read", "apply"}
                    /\ t.error = "read" => ~t.applied
                    /\ t.error = "apply" => t.applied

\* Snippets' read failed and Keybindings was still read and applied.
C3_Witness ==
    \E c \in CallIds :
        /\ calls[c].entry = "other"
        /\ calls[c].pc = "done"
        /\ calls[c].tasks[2].error = "read"
        /\ calls[c].tasks[1].st = "done" /\ calls[c].tasks[1].applied

\* C4: once the first construction attempt yielded absent, no call ever
\* invokes read, whatever the gates say afterwards.
C4_AbsentIsNeverRetried ==
    (promises # <<>> /\ Absent(promises[1]))
    => /\ \A k \in SyncResource : reads[k] = 0
       /\ \A c \in CallIds : \A i \in TaskIds(c) : ~calls[c].tasks[i].read
       /\ clients = 0

\* The first attempt failed a gate, the gate was repaired so that every check
\* passes, and a call made after that has returned.
C4_Witness ==
    /\ promises # <<>> /\ Absent(promises[1])
    /\ promises[1].log \in Gates
    /\ envChanges > 0 /\ GatesPass(env)
    /\ Len(calls) = 2 /\ calls[2].pc = "done"

\* C5: the promise returned by initializeRequiredResources and by
\* initializeOtherResources never rejects: it resolves when the call ends.
C5_ResourceEntryPointsNeverReject ==
    \A c \in CallIds :
        calls[c].entry \in {"required", "other"}
        => /\ calls[c].outcome # "rejected"
           /\ calls[c].pc = "done" => calls[c].outcome = "resolved"

\* C6 as stated: initializeExtensions without an instantiation service, having
\* run into the missing-service error, returns a promise that rejects.
C6_Original ==
    \A c \in CallIds :
        (/\ NoInstantiationService(c)
         /\ calls[c].pc = "done"
         /\ calls[c].tasks[1].error = "missingInstantiation")
        => calls[c].outcome = "rejected"

\* C6 amended: the missing-service error is thrown exactly when the call goes
\* through the map with Extensions not yet initialized; it is caught by the
\* task's catch block, the returned promise never rejects with it, and a call
\* that went through the map resolves.
C6_MissingServiceErrorIsCaught ==
    \A c \in CallIds :
        NoInstantiationService(c)
        => LET t == calls[c].tasks[1]
           IN /\ calls[c].error # "missingInstantiation"
              /\ Dispatched(c) => calls[c].outcome # "rejected"
              /\ (Dispatched(c) /\ calls[c].pc = "done") => calls[c].outcome = "resolved"
              /\ (Dispatched(c) /\ t.st # "skipped")
                    => (t.st = "failed" /\ t.error = "missingInstantiation")
              /\ t.error = "missingInstantiation" => Dispatched(c)

\* The error was thrown and the call has returned, resolved.
C6_Witness ==
    \E c \in CallIds :
        /\ NoInstantiationService(c)
        /\ calls[c].tasks[1].error = "missingInstantiation"
        /\ calls[c].pc = "done" /\ calls[c].outcome = "resolved"

\* C7: a call of initializeExtensions without an instantiation service
\* invokes neither read nor an initializer, connection present or absent.
C7_NoReadWithoutInstantiationService ==
    \A c \in CallIds :
        NoInstantiationService(c)
        => \A i \in TaskIds(c) :
              /\ ~calls[c].tasks[i].read
              /\ ~calls[c].tasks[i].constructed
              /\ ~calls[c].tasks[i].applied
              /\ calls[c].tasks[i].st \notin {"reading", "applying", "done"}

\* With the connection present the call claimed Extensions and returned, and
\* nothing was read for Extensions.
C7_Witness ==
    \E c \in CallIds :
        /\ NoInstantiationService(c)
        /\ Dispatched(c) /\ calls[c].pc = "done"
        /\ calls[c].tasks[1].st = "failed"
        /\ reads["extensions"] = 0

Entries == [c \in CallIds |-> calls[c].entry]

\* C8: with every gate passed and a session obtained, after
\* initializeRequiredResources, initializeOtherResources and a second
\* initializeRequiredResources have returned, Settings, GlobalState,
\* Keybindings and Snippets were each read exactly once and the third call
\* read nothing.
C8_FreshWebSessionReadsEachKindOnce ==
    (/\ Entries = <<"required", "other", "required">>
     /\ HasClient(promises[1])
     /\ \A c \in CallIds : calls[c].pc = "done")
    => /\ \A k \in SyncResource \ {"extensions"} : reads[k] = 1
       /\ reads["extensions"] = 0
       /\ \A i \in TaskIds(1) : calls[1].tasks[i].read
       /\ \A i \in TaskIds(2) : calls[2].tasks[i].read
       /\ \A i \in TaskIds(3) :
             calls[3].tasks[i].st = "skipped" /\ ~calls[3].tasks[i].read

\* The three calls have returned and all four payloads were applied.
C8_Witness ==
    /\ Entries = <<"required", "other", "required">>
    /\ HasClient(promises[1])
    /\ \A c \in CallIds : calls[c].pc = "done"
    /\ \A k \in SyncResource \ {"extensions"} : applies[k] = 1

\* C9: a kind whose read or apply failed is in the initialized array, and any
\* other call that requested it and went through the map skipped it without
\* a read or an apply.
C9_FailedKindStaysInitialized ==
    \A c \in CallIds : \A i \in TaskIds(c) :
        calls[c].tasks[i].error \in {"read", "apply"}
        => LET k == calls[c].resources[i]
           IN /\ AlreadyInitialized(initialized, k)
              /\ reads[k] = 1
              /\ applies[k] = (IF calls[c].tasks[i].error = "apply" THEN 1 ELSE 0)
              /\ \A d \in CallIds \ {c} : \A j \in TaskIds(d) :
                    (calls[d].resources[j] = k /\ Dispatched(d))
                    => /\ calls[d].tasks[j].st = "skipped"
                       /\ ~calls[d].tasks[j].read
                       /\ ~calls[d].tasks[j].applied

\* Snippets' read failed in the first call; a second call that asked for
\* Snippets again has returned.
C9_Witness ==
    /\ Len(calls) = 2
    /\ calls[1].entry = "other" /\ calls[2].entry = "other"
    /\ calls[1].tasks[2].error = "read"
    /\ calls[1].pc = "done"
    /\ calls[2].pc = "done" /\ Dispatched(2)

\* C10: with the connection absent every call is a no-op: nothing is read,
\* constructed or applied, no task of any call has run, the initialized array
\* is empty, and a call that has ended has resolved.
C10_AbsentConnectionIsNoOp ==
    (promises # <<>> /\ Absent(promises[1]))
    => /\ initialized = <<>>
       /\ \A k \in SyncResource : constructs[k] = 0 /\ applies[k] = 0 /\ reads[k] = 0
       /\ \A c \in CallIds :
             /\ \A i \in TaskIds(c) : calls[c].tasks[i] = NewTask
             /\ calls[c].pc \in {"awaitClient", "done"}
             /\ calls[c].pc = "done" => calls[c].outcome = "resolved"

\* A desktop session: initializeRequiredResources has returned.
C10_Witness ==
    /\ "isWeb" \notin env
    /\ promises # <<>> /\ promises[1].log = "isWeb"
    /\ \E c \in CallIds : calls[c].entry = "required" /\ calls[c].pc = "done"

\* C11: when getCurrentAuthenticationSessionInfo throws, the builder's promise
\* resolves absent as it does without a session: no client is constructed,
\* nothing is read, and every call awaiting it ends resolved, untouched.
C11_AuthErrorResolvesAbsent ==
    \A p \in 1..Len(promises) :
        promises[p].session = "throw"
        => /\ Absent(promises[p])
           /\ promises[p].log = "authError"
           /\ clients = 0
           /\ \A k \in SyncResource : reads[k] = 0
           /\ \A c \in CallIds :
                 calls[c].promise = p
                 => /\ calls[c].outcome # "rejected"
                    /\ calls[c].pc \in {"awaitClient", "done"}
                    /\ calls[c].pc = "done" => calls[c].outcome = "resolved"
                    /\ \A i \in TaskIds(c) : calls[c].tasks[i] = NewTask

\* The session lookup threw and a call that awaited it has returned.
C11_Witness ==
    /\ promises # <<>> /\ promises[1].session = "throw"
    /\ \E c \in CallIds : calls[c].pc = "done" /\ calls[c].outcome = "resolved"

\* ---- the outcome of a list of invocations made in a given order
\* The map of every invocation of `invs`, one after the other, on the state
\* s = [init, reads, constructs], with the client present.
RECURSIVE RunInOrder(_, _, _)
RunInOrder(s, invs, n) ==
    IF n > Len(invs) THEN s
    ELSE LET r == MapFrom([init |-> s.init,
                           tasks |-> [i \in 1..Len(invs[n].resources) |-> NewTask],
                           reads |-> s.reads, constructs |-> s.constructs],
                          1, invs[n].resources, invs[n].inst, 1)
         IN RunInOrder([init |-> r.init, reads |-> r.reads,
                        constructs |-> r.constructs], invs, n + 1)

\* What a list of invocations ends with, when the reads of the kinds in
\* failing fail: the initialized kinds and, per kind, the reads, the
\* initializers constructed and the payloads applied.
OutcomeOf(invs, failing) ==
    LET r == RunInOrder([init |-> <<>>, reads |-> [k \in SyncResource |-> 0],
                         constructs |-> [k \in SyncResource |-> 0]], invs, 1)
    IN [initialized |-> Range(r.init),
        reads |-> r.reads,
        constructs |-> r.constructs,
        applies |-> [k \in SyncResource |->
                        IF k \in failing THEN 0 ELSE r.reads[k]]]

\* The invocations made so far, and what they ended with.
Invocations == [c \in CallIds |-> [resources |-> calls[c].resources,
                                   inst |-> calls[c].inst]]

ReadFailed ==
    {k \in SyncResource : \E c \in CallIds : \E i \in TaskIds(c) :
        calls[c].resources[i] = k /\ calls[c].tasks[i].error = "read"}

ActualOutcome ==
    [initialized |-> Range(initialized), reads |-> reads,
     constructs |-> constructs, applies |-> applies]

\* The orders in which n invocations can be made.
Orders(n) ==
    {f \in [1..n -> 1..n] : \A a, b \in 1..n : f[a] = f[b] => a = b}

Reordered(f) == [c \in CallIds |-> Invocations[f[c]]]

\* Every call has returned, with the connection present.
AllDoneWithClient ==
    /\ calls # <<>>
    /\ HasClient(promises[1])
    /\ \A c \in CallIds : calls[c].pc = "done"

\* One outcome restricted to the kinds of K.
Restrict(o, K) ==
    [initialized |-> o.initialized \cap K,
     reads |-> [k \in K |-> o.reads[k]],
     constructs |-> [k \in K |-> o.constructs[k]],
     applies |-> [k \in K |-> o.applies[k]]]

\* The invocations of initializeExtensions all supply the instantiation
\* service, or all lack it.
ExtensionsCallsAgree ==
    \A c, d \in CallIds :
        (calls[c].entry = "extensions" /\ calls[d].entry = "extensions")
        => calls[c].inst = calls[d].inst

\* C12 as stated: what the invocations made end with (kinds read, applied,
\* initialized) is what the same invocations end with in any other order,
\* initializeExtensions with and without the instantiation service included.
C12_Original ==
    AllDoneWithClient
    => \A f \in Orders(Len(calls)) :
          OutcomeOf(Reordered(f), ReadFailed) = ActualOutcome

\* C12 amended: the initialized kinds are the same in every order, and so are
\* the reads, constructions and applies of every kind but Extensions; those
\* of Extensions are the same in every order when the initializeExtensions
\* invocations all supply, or all lack, the instantiation service.
C12_OrderIrrelevantButForExtensionsService ==
    AllDoneWithClient
    => \A f \in Orders(Len(calls)) :
          LET o == OutcomeOf(Reordered(f), ReadFailed)
          IN /\ o.initialized = ActualOutcome.initialized
             /\ Restrict(o, SyncResource \ {"extensions"})
                   = Restrict(ActualOutcome, SyncResource \ {"extensions"})
             /\ ExtensionsCallsAgree => o = ActualOutcome

\* Two different entry points were called, both calls went through the map
\* and returned, and a payload was applied.
C12_Witness ==
    /\ AllDoneWithClient
    /\ Len(calls) = 2
    /\ calls[1].entry = "required" /\ calls[2].entry = "extensions" /\ calls[2].inst
    /\ applies["settings"] = 1 /\ applies["extensions"] = 1

\* The positions a kind can have in the array of an entry point.
Slots == DOMAIN RequiredResources \cup DOMAIN OtherResources
            \cup DOMAIN ExtensionsResources

\* Task i of call c passed the includes check: it claimed its kind.
Claimed(c, i) == calls[c].tasks[i].st \notin {"pending", "skipped"}

\* The tasks, over all calls, that passed the includes check for kind k.
Claimers(k) ==
    {<<c, i>> \in CallIds \X Slots :
        /\ i \in TaskIds(c)
        /\ calls[c].resources[i] = k
        /\ Claimed(c, i)}

\* C13: a read for kind K has been started only with K in the initialized
\* array, a task that passed the includes check has put its kind there before
\* its first suspension, and no two tasks ever passed the check for one kind.
C13_MarkedBeforeRead ==
    /\ \A k \in SyncResource : reads[k] >= 1 => AlreadyInitialized(initialized, k)
    /\ \A m, n \in 1..Len(initialized) : initialized[m] = initialized[n] => m = n
    /\ \A c \in CallIds : \A i \in TaskIds(c) :
          Claimed(c, i)
          => /\ AlreadyInitialized(initialized, calls[c].resources[i])
             /\ \A d \in CallIds : \A j \in TaskIds(d) :
                   (Claimed(d, j) /\ calls[d].resources[j] = calls[c].resources[i])
                   => (d = c /\ j = i)

\* Two calls ask for Settings; the first one's read is still under way when
\* the second has gone through the map and skipped the kind.
C13_Witness ==
    /\ Len(calls) = 2
    /\ calls[1].entry = "required" /\ calls[2].entry = "required"
    /\ calls[1].tasks[1].st = "reading"
    /\ calls[2].tasks[1].st = "skipped"

\* The checks of the chain that come before check g.
Before(g) ==
    {GateOrder[j] : j \in {n \in 1..Len(GateOrder) :
        \E m \in (n + 1)..Len(GateOrder) : GateOrder[m] = g}}

\* C14: the session is looked up only by an attempt that saw all six checks
\* pass; an attempt that saw a check fail stops at the first failing check
\* of the chain, never looks up the session and constructs no client.
C14_ChainShortCircuits ==
    /\ \A p \in 1..Len(promises) :
          LET a == promises[p]
          IN /\ a.session # "unasked" <=> Gates \subseteq a.gates
             /\ ~(Gates \subseteq a.gates)
                   => /\ Absent(a)
                      /\ a.log \in Gates \ a.gates
                      /\ Before(a.log) \subseteq a.gates
             /\ HasClient(a) => Gates \subseteq a.gates
    /\ authCalls = Cardinality({p \in 1..Len(promises) :
                                   promises[p].session # "unasked"})
    /\ clients = Cardinality({p \in 1..Len(promises) : HasClient(promises[p])})

\* An attempt saw two checks fail and stopped at the earlier one; the call
\* has returned without a session lookup.
C14_Witness ==
    /\ promises # <<>>
    /\ Cardinality(Gates \ promises[1].gates) = 2
    /\ promises[1].log = "globalNew"
    /\ "credentialsProvider" \notin promises[1].gates
    /\ authCalls = 0
    /\ calls[1].pc = "done"

\* Event a comes before event b in the list ev.
Precedes(ev, a, b) ==
    \E m, n \in 1..Len(ev) : m < n /\ ev[m] = a /\ ev[n] = b

IsPrefix(ev, full) ==
    /\ Len(ev) <= Len(full)
    /\ \A n \in 1..Len(ev) : ev[n] = full[n]

\* C15 as stated: in every task that built its initializer, the read of the
\* kind came before the construction of the initializer.
C15_Original ==
    \A c \in CallIds : \A i \in TaskIds(c) :
        calls[c].tasks[i].constructed
        => Precedes(calls[c].tasks[i].events, "read", "construct")

\* C15 amended: a task marks its kind, then constructs the initializer, then
\* calls read, then applies: the construction comes before the read, and a
\* task whose construction throws stops after the mark, without a read.
C15_ConstructBeforeRead ==
    \A c \in CallIds : \A i \in TaskIds(c) :
        LET t == calls[c].tasks[i]
        IN /\ IsPrefix(t.events, <<"mark", "construct", "read", "apply">>)
           /\ t.st \in {"pending", "skipped"} <=> t.events = <<>>
           /\ t.read => Precedes(t.events, "construct", "read")
           /\ t.applied => Precedes(t.events, "read", "apply")
           /\ t.error = "missingInstantiation" => t.events = <<"mark">>

\* A task has marked, constructed, read and applied, in that order.
C15_Witness ==
    \E c \in CallIds : \E i \in TaskIds(c) :
        /\ calls[c].tasks[i].st = "done"
        /\ calls[c].tasks[i].events = <<"mark", "construct", "read", "apply">>

\* ---------------------------------------------------------------- liveness
\* The read, and the apply, of task i of call c settles, one way or the other.
ReadOf(c, i) ==
    /\ c \in CallIds /\ i \in TaskIds(c)
    /\ \E ok \in BOOLEAN : ReadSettles(c, i, ok)

ApplyOf(c, i) ==
    /\ c \in CallIds /\ i \in TaskIds(c)
    /\ \E ok \in BOOLEAN : ApplySettles(c, i, ok)

\* Kinds whose remote read may never return.
HungKinds == {"settings", "snippets"}

Hung(c, i) == c \in CallIds /\ i \in TaskIds(c) /\ calls[c].resources[i] \in HungKinds

\* The event loop runs every continuation that is ready, the session lookup
\* returns, and so does every read and apply but those of the hung kinds.
SpecHang ==
    /\ Init /\ [][Next]_vars
    /\ WF_vars(AuthReturn)
    /\ WF_vars(Resume)
    /\ WF_vars(Return)
    /\ \A c \in 1..MaxCalls : \A i \in Slots :
          /\ WF_vars(~Hung(c, i) /\ ReadOf(c, i))
          /\ WF_vars(~Hung(c, i) /\ ApplyOf(c, i))

\* Call c exists, asked for a kind in slot i and got the client.
RequestedWithClient(c, i) ==
    /\ c \in CallIds /\ i \in TaskIds(c)
    /\ HasClient(promises[calls[c].promise])

\* The attempt at the kind of slot i of call c is over: the task that claimed
\* it has read and applied, or has failed by a failure of its own.
AttemptOver(c, i) ==
    /\ c \in CallIds /\ i \in TaskIds(c)
    /\ \E x \in Claimers(calls[c].resources[i]) :
          LET t == calls[x[1]].tasks[x[2]]
          IN \/ t.st = "done" /\ t.read /\ t.applied
             \/ t.st = "failed" /\ t.error \in {"read", "apply", "missingInstantiation"}

\* C16: with the reads of the hung kinds free never to return, every other
\* kind that a call asked for with the client present is eventually read and
\* applied (or fails by its own read or apply), in the same call or another.
C16_HungReadStallsOnlyItsTask ==
    \A c \in 1..MaxCalls : \A i \in Slots :
        (RequestedWithClient(c, i) /\ ~Hung(c, i)) ~> AttemptOver(c, i)

\* Settings' read is still out while GlobalState, asked for by the same call,
\* has been read and applied.
C16_Witness ==
    \E c \in CallIds :
        /\ calls[c].entry = "required"
        /\ calls[c].tasks[1].st = "reading"
        /\ calls[c].tasks[2].st = "done" /\ calls[c].tasks[2].applied

\* An external operation started by call c itself, for a hung kind, is out.
OwnOperationOut(c) ==
    /\ c \in CallIds
    /\ \E i \in TaskIds(c) :
          Hung(c, i) /\ calls[c].tasks[i].st \in {"reading", "applying"}

\* C17: every entry-point call eventually returns unless a read or an apply
\* that the call itself started never returns; a read or an apply that another
\* call started, hung or not, never keeps it from returning.
C17_EveryCallReturns ==
    \A c \in 1..MaxCalls :
        (c \in CallIds) ~>
            ((c \in CallIds /\ calls[c].pc = "done") \/ [](OwnOperationOut(c)))

\* A call has returned while the read of a kind it asked for, claimed by an
\* earlier call, is still out.
C17_Witness ==
    /\ Len(calls) = 2
    /\ calls[1].entry = "other" /\ calls[2].entry = "other"
    /\ calls[1].tasks[1].st = "reading"
    /\ calls[2].pc = "done" /\ calls[2].tasks[1].st = "skipped"

\* C18: once a call of initializeExtensions without an instantiation service
\* has run with the connection present, Extensions is in the initialized
\* array; where that call claimed the kind, the kind was marked and nothing
\* was constructed, read or applied for it; and every later call of
\* initializeExtensions that brings the service skips the kind.
C18_MissingServicePoisonsExtensions ==
    \A c \in CallIds :
        (NoInstantiationService(c) /\ Dispatched(c))
        => /\ AlreadyInitialized(initialized, "extensions")
           /\ calls[c].tasks[1].error = "missingInstantiation"
              => /\ calls[c].tasks[1].events = <<"mark">>
                 /\ reads["extensions"] = 0
                 /\ constructs["extensions"] = 0
                 /\ applies["extensions"] = 0
           /\ \A d \in CallIds :
                 (d > c /\ calls[d].entry = "extensions" /\ calls[d].inst
                    /\ Dispatched(d))
                 => /\ calls[d].tasks[1].st = "skipped"
                    /\ ~calls[d].tasks[1].constructed
                    /\ ~calls[d].tasks[1].read
                    /\ ~calls[d].tasks[1].applied

\* The call without the service failed on Extensions; the next call brought
\* the service, ran with the connection present and returned.
C18_Witness ==
    /\ Len(calls) = 2
    /\ NoInstantiationService(1) /\ Dispatched(1)
    /\ calls[1].tasks[1].error = "missingInstantiation"
    /\ calls[2].entry = "extensions" /\ calls[2].inst
    /\ Dispatched(2) /\ calls[2].pc = "done"

\* Call c has returned to its caller, resolved, having run with the client.
ResolvedWithClient(c) ==
    /\ Dispatched(c)
    /\ calls[c].pc = "done" /\ calls[c].outcome = "resolved"

\* The task has finished its attempt: applied, or failed and logged.
Finished(t) ==
    \/ t.st = "done" /\ t.applied
    \/ t.st = "failed" /\ t.error \in {"read", "apply", "missingInstantiation"}

\* C19 as stated: when an entry point resolves with the connection present,
\* the attempt at every kind it requested has finished, whichever call
\* claimed the kind.
C19_Original ==
    \A c \in CallIds :
        ResolvedWithClient(c)
        => \A i \in TaskIds(c) :
              \E x \in Claimers(calls[c].resources[i]) :
                  Finished(calls[x[1]].tasks[x[2]])

\* C19: when an entry point resolves with the connection present, every kind
\* that this call claimed has finished its attempt; every other kind it
\* requested was skipped by it, is in the initialized array and was claimed by
\* a task of another call, which may still be under way.
C19_OwnKindsFinished ==
    \A c \in CallIds :
        ResolvedWithClient(c)
        => \A i \in TaskIds(c) :
              LET t == calls[c].tasks[i]
                  k == calls[c].resources[i]
              IN \/ Finished(t)
                 \/ /\ t.st = "skipped"
                    /\ AlreadyInitialized(initialized, k)
                    /\ \E x \in Claimers(k) : x[1] # c

\* A call has resolved, having skipped the kinds it requested, while one of
\* them is still being applied by the call that claimed it.
C19_Witness ==
    \E c, d \in CallIds :
        /\ c # d
        /\ ResolvedWithClient(c)
        /\ calls[c].entry = "required" /\ calls[d].entry = "required"
        /\ calls[d].tasks[1].st = "applying"
        /\ calls[c].tasks[1].st = "skipped"
        /\ calls[d].tasks[2].st \in {"done", "failed"}

\* C20: a task that called initializer.initialize had its own read return
\* successfully before, and passed what that read resolved with; a task whose
\* read failed has applied nothing; and over all calls initialize is invoked
\* at most once per kind, never for a kind whose read failed.
C20_ApplyOnlyWhatWasRead ==
    /\ \A k \in SyncResource : applies[k] <= 1
    /\ \A c \in CallIds : \A i \in TaskIds(c) :
          LET t == calls[c].tasks[i]
              k == calls[c].resources[i]
          IN /\ t.applied
                => /\ t.read /\ t.error # "read"
                   /\ Precedes(t.events, "read", "apply")
                   /\ t.userData = ReadResult(c, i, k)
                   /\ t.argument = t.userData
                   /\ applies[k] = 1
             /\ t.error = "read"
                => /\ ~t.applied
                   /\ t.argument = <<>>
                   /\ "apply" \notin Range(t.events)
                   /\ applies[k] = 0

\* In one call a kind was read and its payload applied to the end, while the
\* read of the other kind failed.
C20_Witness ==
    \E c \in CallIds :
        /\ calls[c].entry = "other"
        /\ calls[c].tasks[1].st = "done" /\ calls[c].tasks[1].applied
        /\ calls[c].tasks[2].error = "read" /\ calls[c].tasks[2].read

\* ------------------------------------------------------------ BulkCellEdits
\* compare(a.resource.toString(), b.resource.toString()): negative, zero or
\* positive, by the order of the two strings.
Rank(r) == CHOOSE n \in 1..Len(ResourceOrder) : ResourceOrder[n] = r

compare(a, b) == Rank(a) - Rank(b)

\* The stable sort inside groupBy: e goes behind every element that does not
\* compare greater than it.
RECURSIVE InsertSorted(_, _)
InsertSorted(sorted, e) ==
    IF sorted = <<>> THEN <<e>>
    ELSE IF compare(Head(sorted).resource, e.resource) > 0
    THEN <<e>> \o sorted
    ELSE <<Head(sorted)>> \o InsertSorted(Tail(sorted), e)

RECURSIVE SortFrom(_, _)
SortFrom(sorted, rest) ==
    IF rest = <<>> THEN sorted
    ELSE SortFrom(InsertSorted(sorted, Head(rest)), Tail(rest))

\* The loop of groupBy over the sorted elements: an element that compares
\* equal to the current group's first joins it, any other opens a new group.
RECURSIVE GroupFrom(_, _)
GroupFrom(result, rest) ==
    IF rest = <<>> THEN result
    ELSE LET e == Head(rest)
             n == Len(result)
         IN IF n > 0 /\ compare(result[n][1].resource, e.resource) = 0
            THEN GroupFrom([result EXCEPT ![n] = Append(@, e)], Tail(rest))
            ELSE GroupFrom(Append(result, <<e>>), Tail(rest))

\* groupBy(this._edits, (a, b) => compare(a.resource..., b.resource...))
groupBy(data) == GroupFrom(<<>>, SortFrom(<<>>, data))

\* A ResourceNotebookCellEdit without its cell edit: the resource, and the
\* optional versionId (hasVersion is `typeof versionId === 'number'`).
EditShapes ==
    [resource : Resources, hasVersion : {TRUE}, versionId : 1..MaxVersion]
        \cup [resource : Resources, hasVersion : {FALSE}, versionId : {0}]

\* The edit lists a BulkCellEdits is constructed with; cellEdit identifies
\* the cell edit operation each one carries.
EditLists ==
    UNION {{[i \in 1..n |-> [resource |-> f[i].resource,
                             hasVersion |-> f[i].hasVersion,
                             versionId |-> f[i].versionId,
                             cellEdit |-> i]] : f \in [1..n -> EditShapes]}
           : n \in 0..MaxEdits}

\* A BulkCellEdits after construction, over notebooks at their first version
\* (NotebookChanges takes them further); the initialization service is left
\* alone.
InitBulk ==
    /\ InitService /\ env = Gates
    /\ edits \in EditLists
    /\ notebooks = [r \in Resources |-> 1]
    /\ editsByNotebook = <<>>
    /\ groupIndex = 0
    /\ bulkPc = "new"
    /\ bulkError = "none"
    /\ resolves = <<>>
    /\ applyEdits = <<>>
    /\ disposes = 0
    /\ progress = 0

\* apply() up to its first await: the edits are grouped and the notebook of
\* the first group is asked for; without edits the loop has nothing to do.
apply ==
    /\ bulkPc = "new"
    /\ editsByNotebook' = groupBy(edits)
    /\ IF editsByNotebook' = <<>>
       THEN bulkPc' = "resolved" /\ groupIndex' = 0
       ELSE bulkPc' = "resolving" /\ groupIndex' = 1
    /\ UNCHANGED <<edits, notebooks, bulkError, resolves, applyEdits, disposes,
                   progress>>
    /\ UNCHANGED serviceVars

\* Faulty variant of the state check: no check at all.
HasChangedNever(first, versionId) == FALSE

\* typeof first.versionId === 'number' &&
\*     ref.object.notebook.versionId !== first.versionId
HasChanged(first, versionId) ==
    first.hasVersion /\ versionId # first.versionId

\* group.map(edit => edit.cellEdit)
CellEdits(group) == [n \in 1..Len(group) |-> group[n].cellEdit]

\* The resolve of the current group's notebook settles, and apply() runs on
\* to its next await or to its end: a rejected resolve rejects apply(); a
\* changed notebook is disposed and apply() throws; otherwise the cell edits
\* of the whole group are applied at the notebook's current versionId (which
\* the notebook then increases), the reference is disposed, progress is
\* reported, and the next group, if any, is asked for.
ResolveReturn ==
    \E ok \in BOOLEAN :
        LET group == editsByNotebook[groupIndex]
            first == group[1]
            versionId == notebooks[first.resource]
        IN /\ bulkPc = "resolving"
           /\ IF ~ok
              THEN /\ bulkPc' = "rejected" /\ bulkError' = "resolve"
                   /\ UNCHANGED <<notebooks, groupIndex, resolves, applyEdits,
                                  disposes, progress>>
              ELSE /\ disposes' = disposes + 1
                   /\ resolves' = Append(resolves,
                                      [group |-> groupIndex,
                                       resource |-> first.resource,
                                       versionId |-> versionId])
                   /\ IF HasChanged(first, versionId)
                      THEN /\ bulkPc' = "rejected" /\ bulkError' = "changed"
                           /\ UNCHANGED <<notebooks, groupIndex, applyEdits, progress>>
                      ELSE /\ applyEdits' = Append(applyEdits,
                                                [resource |-> first.resource,
                                                 versionId |-> versionId,
                                                 cellEdits |-> CellEdits(group)])
                           /\ notebooks' = [notebooks EXCEPT
                                               ![first.resource] = @ + 1]
                           /\ progress' = progress + 1
                           /\ IF groupIndex < Len(editsByNotebook)
                              THEN /\ groupIndex' = groupIndex + 1
                                   /\ UNCHANGED bulkPc
                              ELSE /\ bulkPc' = "resolved"
                                   /\ UNCHANGED groupIndex
                           /\ UNCHANGED bulkError
           /\ UNCHANGED <<edits, editsByNotebook>>
           /\ UNCHANGED serviceVars

\* Somebody else edits a notebook while apply() has not started or waits for
\* a resolve: its versionId increases.
NotebookChanges ==
    \E r \in Resources :
        /\ bulkPc \in {"new", "resolving"}
        /\ notebooks[r] < MaxVersion
        /\ notebooks' = [notebooks EXCEPT ![r] = @ + 1]
        /\ UNCHANGED <<edits, editsByNotebook, groupIndex, bulkPc, bulkError,
                       resolves, applyEdits, disposes, progress>>
        /\ UNCHANGED serviceVars

NextBulk ==
    \/ apply
    \/ ResolveReturn
    \/ NotebookChanges

SpecBulk == InitBulk /\ [][NextBulk]_vars

\* The applyEdit call, if any, made for the notebook of a resource.
AppliedTo(r) == {n \in 1..Len(applyEdits) : applyEdits[n].resource = r}

\* The edit carries a versionId other than the one the notebook had when it
\* was resolved.
Stale(e, versionId) == e.hasVersion /\ e.versionId # versionId

\* C21 as stated: every edit of the input list that carries a versionId other
\* than the resolved notebook's is left unapplied, and apply() rejects with
\* the 'has changed in the meantime' error.
C21_Original ==
    \A n \in 1..Len(resolves) : \A m \in 1..Len(edits) :
        (edits[m].resource = resolves[n].resource
            /\ Stale(edits[m], resolves[n].versionId))
        => /\ \A a \in AppliedTo(edits[m].resource) :
                 edits[m].cellEdit \notin Range(applyEdits[a].cellEdits)
           /\ bulkPc = "rejected" /\ bulkError = "changed"

\* C21: per notebook, the versionId of the group's first edit alone guards the
\* group. When it is numeric and differs from the resolved notebook's, no
\* edit of the group is applied, the reference is disposed and apply() has
\* rejected with the 'has changed in the meantime' error at this group;
\* otherwise every edit of the group is applied in one applyEdit call at the
\* notebook's versionId, whatever versionId the other edits carry.
C21_FirstEditOfGroupGuards ==
    /\ disposes = Len(resolves)
    /\ \A n \in 1..Len(resolves) :
          LET group == editsByNotebook[resolves[n].group]
              r == resolves[n].resource
          IN IF Stale(group[1], resolves[n].versionId)
             THEN /\ AppliedTo(r) = {}
                  /\ bulkPc = "rejected" /\ bulkError = "changed"
                  /\ n = Len(resolves) /\ groupIndex = resolves[n].group
             ELSE /\ Cardinality(AppliedTo(r)) = 1
                  /\ \A a \in AppliedTo(r) :
                        /\ applyEdits[a].versionId = resolves[n].versionId
                        /\ applyEdits[a].cellEdits = CellEdits(group)
                        /\ Range(applyEdits[a].cellEdits) =
                               {edits[m].cellEdit : m \in
                                   {x \in 1..Len(edits) : edits[x].resource = r}}

\* apply() has applied the group of one notebook and then rejected at the
\* next, whose first edit names a versionId the notebook no longer has.
C21_Witness ==
    /\ bulkPc = "rejected" /\ bulkError = "changed"
    /\ Len(applyEdits) = 1
    /\ Len(resolves) = 2
    /\ Stale(editsByNotebook[2][1], resolves[2].versionId)
====
